---- MODULE Spec2Model ----
(***************************************************************************)
(* Model of crates/aptos/src/move_tool/cli_package_new.rs: the `aptos new` *)
(* package scaffolder.  Three state machines share this module:            *)
(*   SpecScan  str_to_insert_position / str_replace_position on one text   *)
(*   SpecCp    cp_r on a small file system                                 *)
(*   Spec      NewPackage::execute, from argument parsing to its result    *)
(* Strings are sequences of one-character strings; offsets are 0-based     *)
(* byte offsets as in the Rust code.                                       *)
(***************************************************************************)
EXTENDS Integers, Sequences, FiniteSets, TLC

VARIABLES
    \* str_replace_position(text, key_value) and the scanner it calls
    text, key_value, spc, cur, result, replaced, ti,
    \* the file system, and the WalkDir iterator of the running loop
    fs, walk,
    \* cp_r(cp_from, cp_to): its state, and the results of the finished calls
    cp_from, cp_to, cp_status, cp_results, fs_at_call,
    \* NewPackage: the arguments
    package_dir, name, template_type_flag, skip_profile_creation, assume_yes,
    \* execute: its locals, its position and how it ended
    package_name, package_lowercase_name, template_type, profile_address_hex, ctp,
    pc, outcome,
    \* history: the steps execute ran with their results, whether a line was
    \* read from the user, and what PackageDir::from_str found at the path
    log, prompted, validated

scanVars == <<text, key_value, spc, cur, result, replaced, ti>>
fsVars == <<fs, walk>>
cpVars == <<cp_from, cp_to, cp_status, cp_results, fs_at_call>>
flagVars == <<package_dir, name, template_type_flag, skip_profile_creation, assume_yes>>
localVars == <<package_name, package_lowercase_name, template_type, profile_address_hex, ctp>>
ghostVars == <<log, prompted, validated>>
exVars == <<flagVars, localVars, pc, outcome, ghostVars>>
vars == <<scanVars, fsVars, cpVars, exVars>>
notScan == <<fsVars, cpVars, exVars>>
notCp == <<scanVars, exVars>>

\* ------------------------------------------------------------------ bounds
\* Longest input text of SpecScan, counted in pieces of Pieces.
MaxPieces == 4
\* Most entries of a source tree, and most entries already in the
\* destination, when cp_r is first called in SpecCp.
MaxSrcEntries == 3
MaxDstEntries == 1
\* Most calls of cp_r on the same pair in SpecCp.
MaxCalls == 2
\* Most entries of a template a clone fetches in Spec.
MaxTemplateEntries == 2
\* Most calls of git_download for the same template in SpecGit.
MaxGitCalls == 3

\* ----------------------------------------------------------------- strings
None == -1

Min(S) == CHOOSE m \in S : \A o \in S : m <= o
Max(S) == CHOOSE m \in S : \A o \in S : m >= o

\* text[a..b] of Rust: the bytes at 0-based offsets a .. b-1.
Slice(s, a, b) == SubSeq(s, a + 1, b)

\* str::find: the offset of the first match of pat in s, or None.
StrFind(s, pat) ==
    LET hits == {i \in 0..(Len(s) - Len(pat)) : Slice(s, i, i + Len(pat)) = pat}
    IN  IF hits = {} THEN None ELSE Min(hits)

StrContains(s, pat) == StrFind(s, pat) # None

RECURSIVE trim_start_matches(_, _)
\* str::trim_start_matches with a set of characters: strips the longest
\* prefix made of them.
trim_start_matches(s, cs) ==
    IF s # <<>> /\ Head(s) \in cs THEN trim_start_matches(Tail(s), cs) ELSE s

RECURSIVE trim_end_matches(_, _)
trim_end_matches(s, cs) ==
    IF s # <<>> /\ s[Len(s)] \in cs
    THEN trim_end_matches(SubSeq(s, 1, Len(s) - 1), cs)
    ELSE s

\* str::trim_matches(char): both ends.
trim_matches(s, cs) == trim_end_matches(trim_start_matches(s, cs), cs)

\* The white space str::trim strips: the characters with the White_Space
\* property that a string of the model can hold, which are the ASCII ones.
\* The third is U+000B, the vertical tab, written raw.
WhiteSpace == {" ", "\t", "", "\n", "\f", "\r"}

trim(s) == trim_matches(s, WhiteSpace)

RECURSIVE StrReplace(_, _, _)
\* str::replace(from, to): every non-overlapping match, left to right.
StrReplace(s, from, to) ==
    IF Len(s) < Len(from) \/ from = <<>> THEN s
    ELSE IF SubSeq(s, 1, Len(from)) = from
         THEN to \o StrReplace(SubSeq(s, Len(from) + 1, Len(s)), from, to)
         ELSE <<Head(s)>> \o StrReplace(Tail(s), from, to)

OpenMarker == <<"{", "{">>
CloseMarker == <<"}", "}">>

\* ------------------------------------------------ str_to_insert_position
\* text[cur..].find("{{"), rebased: start_pos, or None.
FindAtOrAfterLast(t, c) ==
    LET hits == {i \in c..(Len(t) - 2) : Slice(t, i, i + 2) = OpenMarker}
        close == {j \in c..(Len(t) - 2) : Slice(t, j, j + 2) = CloseMarker}
        inner == {i \in hits : close = {} \/ i < Min(close)}
    IN  IF hits = {} THEN None
        ELSE IF inner = {} THEN Min(hits) ELSE Max(inner)

FindOpen(t, c) ==
    LET f == StrFind(Slice(t, c, Len(t)), OpenMarker)
    IN  IF f = None THEN None ELSE f + c

\* text[start_pos..].find("}}") turned into end_pos, or None.
FindCloseNoSkip(t, start_pos) ==
    LET f == StrFind(Slice(t, start_pos, Len(t)), CloseMarker)
    IN  IF f = None THEN None ELSE start_pos + f + 1

FindClose(t, start_pos) ==
    LET f == StrFind(Slice(t, start_pos, Len(t)), CloseMarker)
    IN  IF f = None THEN None ELSE start_pos + f + 2

\* position.trim().trim_matches('{').trim_matches('}').trim()
PositionIndexNoTrim(position) ==
    trim_matches(trim_matches(position, {"{"}), {"}"})

PositionIndex(position) ==
    trim(trim_matches(trim_matches(trim(position), {"{"}), {"}"}))

\* One pass of the while-let loop from (cur, result): `exit` when the loop
\* condition fails; a `continue` leaves result alone and sets cur to
\* start_pos.
scan_iteration(t, c, res) ==
    LET start_pos == FindOpen(t, c)
    IN  IF start_pos = None
        THEN [exit |-> TRUE, cur |-> c, result |-> res]
        ELSE LET end_pos == FindClose(t, start_pos)
             IN  IF end_pos = None
                 THEN [exit |-> FALSE, cur |-> start_pos, result |-> res]
                 ELSE LET position == Slice(t, start_pos, end_pos)
                      IN  [exit |-> FALSE, cur |-> end_pos,
                           result |-> Append(res, <<PositionIndex(position), position>>)]

RECURSIVE ScanFrom(_, _, _)
\* The whole loop.  A pass that changes neither cur nor result repeats
\* forever: `hang`.
ScanFrom(t, c, res) ==
    LET it == scan_iteration(t, c, res)
    IN  IF it.exit THEN [hang |-> FALSE, result |-> res]
        ELSE IF it.cur = c /\ it.result = res THEN [hang |-> TRUE, result |-> res]
        ELSE ScanFrom(t, it.cur, it.result)

str_to_insert_position(t) == ScanFrom(t, 0, <<>>)

\* ------------------------------------------------- str_replace_position
\* The body of the for loop for one token.
replace_token(res, tok, kv) ==
    IF tok[1] \in DOMAIN kv THEN StrReplace(res, tok[2], kv[tok[1]]) ELSE res

RECURSIVE ReplaceAll(_, _, _, _)
ReplaceAll(res, toks, i, kv) ==
    IF i > Len(toks) THEN res
    ELSE ReplaceAll(replace_token(res, toks[i], kv), toks, i + 1, kv)

\* [hang, text]: the returned String, unless the scan never returns.
str_replace_position(t, kv) ==
    LET sc == str_to_insert_position(t)
    IN  IF sc.hang THEN [hang |-> TRUE, text |-> t]
        ELSE [hang |-> FALSE, text |-> ReplaceAll(t, sc.result, 1, kv)]

\* ------------------------------------------------------------ file system
\* A path is a string; the file system maps each existing path, as its
\* sequence of components, to a node.  The root <<>> is a directory.
RECURSIVE Components(_)
\* Path::components: the names between the separators.
Components(p) ==
    IF p = <<>> THEN <<>>
    ELSE IF Head(p) = "/" THEN Components(Tail(p))
    ELSE LET stop == {i \in 1..Len(p) : p[i] = "/"}
             n == IF stop = {} THEN Len(p) ELSE Min(stop) - 1
         IN  <<SubSeq(p, 1, n)>> \o Components(SubSeq(p, n + 1, Len(p)))

\* Path::join
PathJoin(base, rel) ==
    IF rel # <<>> /\ Head(rel) = "/" THEN rel
    ELSE IF base = <<>> \/ base[Len(base)] = "/" THEN base \o rel
    ELSE base \o <<"/">> \o rel

DirNode == [kind |-> "dir", data |-> <<>>]
FileNode(data) == [kind |-> "file", data |-> data]

Parent(c) == SubSeq(c, 1, Len(c) - 1)
IsPrefix(a, c) == Len(a) <= Len(c) /\ SubSeq(c, 1, Len(a)) = a

Exists(f, c) == c \in DOMAIN f
IsFile(f, c) == c \in DOMAIN f /\ f[c].kind = "file"
IsDir(f, c) == c \in DOMAIN f /\ f[c].kind = "dir"

Put(f, c, node) == [q \in DOMAIN f \cup {c} |-> IF q = c THEN node ELSE f[q]]

\* The entries readdir reports for directory c: name and d_type.
Listing(f, c) ==
    {[name |-> q[Len(q)], kind |-> f[q].kind] :
        q \in {r \in DOMAIN f : Len(r) = Len(c) + 1 /\ IsPrefix(c, r)}}

FsErr(f) == [ok |-> FALSE, fs |-> f]
FsOk(f) == [ok |-> TRUE, fs |-> f]

\* The destination of fs::copy opened with create and truncate.
Truncated(f, b) == Put(f, b, FileNode(<<>>))

\* fs::copy: the source must be a regular file; the destination is opened
\* with create and truncate before the source is read, so an existing file
\* there is overwritten, and a file copied onto itself ends up empty.
fs_copy(f, from, to) ==
    LET a == Components(from)
        b == Components(to)
    IN  IF ~IsFile(f, a) THEN FsErr(f)
        ELSE IF b = <<>> \/ ~IsDir(f, Parent(b)) \/ IsDir(f, b) THEN FsErr(f)
        ELSE FsOk(Put(f, b, FileNode(Truncated(f, b)[a].data)))

\* fs::create_dir: mkdir fails when the path exists or its parent is no
\* directory.
fs_create_dir(f, path) ==
    LET c == Components(path)
    IN  IF c = <<>> \/ Exists(f, c) \/ ~IsDir(f, Parent(c)) THEN FsErr(f)
        ELSE FsOk(Put(f, c, DirNode))

RECURSIVE CreateDirAll(_, _)
CreateDirAll(f, c) ==
    IF IsDir(f, c) THEN FsOk(f)
    ELSE IF Exists(f, c) \/ c = <<>> THEN FsErr(f)
    ELSE LET up == CreateDirAll(f, Parent(c))
         IN  IF up.ok THEN FsOk(Put(up.fs, c, DirNode)) ELSE FsErr(f)

\* fs::create_dir_all: the missing ancestors too; an existing directory is
\* no error.
fs_create_dir_all(f, path) == CreateDirAll(f, Components(path))

\* fs::write: create or truncate, then write.
fs_write(f, path, data) ==
    LET c == Components(path)
    IN  IF c = <<>> \/ ~IsDir(f, Parent(c)) \/ IsDir(f, c) THEN FsErr(f)
        ELSE FsOk(Put(f, c, FileNode(data)))

HasChildren(f, c) == Listing(f, c) # {}

\* fs::rename (rename(2)): the source must exist and the destination's
\* parent be a directory; a file replaces a file, a directory replaces an
\* empty directory, a directory cannot move below itself.
fs_rename(f, from, to) ==
    LET a == Components(from)
        b == Components(to)
    IN  IF a = <<>> \/ b = <<>> \/ ~Exists(f, a) \/ ~IsDir(f, Parent(b)) THEN FsErr(f)
        ELSE IF a = b THEN FsOk(f)
        ELSE IF IsDir(f, a) /\ IsPrefix(a, b) THEN FsErr(f)
        ELSE IF IsPrefix(b, a) THEN FsErr(f)
        ELSE IF Exists(f, b) /\ f[b].kind # f[a].kind THEN FsErr(f)
        ELSE IF IsDir(f, b) /\ HasChildren(f, b) THEN FsErr(f)
        ELSE LET moved == {q \in DOMAIN f : IsPrefix(a, q)}
                 dest(q) == b \o SubSeq(q, Len(a) + 1, Len(q))
                 keep == DOMAIN f \ moved
             IN  FsOk([q \in keep \cup {dest(m) : m \in moved} |->
                        IF \E m \in moved : dest(m) = q
                        THEN f[CHOOSE m \in moved : dest(m) = q]
                        ELSE f[q]])

\* ---------------------------------------------------------------- WalkDir
\* The iterator is a stack of open directories: the path each was opened
\* under and the entries not yet yielded.  A directory is opened, by its
\* path, before its own entry is yielded; its entries come in readdir's
\* order, which is any order.
OpenDir(f, path) == [root |-> path, pending |-> Listing(f, Components(path))]

\* WalkDir::new(root).into_iter() ... .skip(1): the root is not yielded.
WalkStart(f, root) ==
    IF IsDir(f, Components(root)) THEN <<OpenDir(f, root)>> ELSE <<>>

RECURSIVE WalkNext(_, _)
\* The next entries the iterator may yield, each with the iterator after
\* it.  A directory that cannot be opened is yielded all the same; the Err
\* item that stands for its entries is what filter_map(|path| path.ok())
\* drops.  No outcome: the walk is over.
WalkNext(f, w) ==
    IF w = <<>> THEN {}
    ELSE LET top == w[Len(w)]
             rest == SubSeq(w, 1, Len(w) - 1)
         IN  IF top.pending = {} THEN WalkNext(f, rest)
             ELSE UNION {
                 LET path == PathJoin(top.root, e.name)
                     w1 == Append(rest, [top EXCEPT !.pending = @ \ {e}])
                 IN  IF e.kind = "dir" /\ IsDir(f, Components(path))
                     THEN {[path |-> path, walk |-> Append(w1, OpenDir(f, path))]}
                     ELSE {[path |-> path, walk |-> w1]}
                 : e \in top.pending }

\* ------------------------------------------------------------------- cp_r
RECURSIVE trim_start_matches_str(_, _)
\* str::trim_start_matches with a string pattern: strips the pattern from
\* the front as often as it matches.
trim_start_matches_str(s, pat) ==
    IF pat # <<>> /\ Len(s) >= Len(pat) /\ SubSeq(s, 1, Len(pat)) = pat
    THEN trim_start_matches_str(SubSeq(s, Len(pat) + 1, Len(s)), pat)
    ELSE s

\* copy_to of one entry.
CopyTo(from, to, copy_from) ==
    PathJoin(to, trim_start_matches_str(trim_start_matches_str(copy_from, from), <<"/">>))

\* The loop body for one entry: copy a file, create a directory.
cp_r_entry(f, from, to, copy_from) ==
    LET copy_to == CopyTo(from, to, copy_from)
    IN  IF IsFile(f, Components(copy_from)) THEN fs_copy(f, copy_from, copy_to)
        ELSE IF IsDir(f, Components(copy_from)) THEN fs_create_dir(f, copy_to)
        ELSE FsOk(f)

\* ------------------------------------------------------- case conversion
LowerLetters == <<"a", "b", "c", "d", "e", "f", "g", "h", "i", "j", "k", "l", "m", "n", "o", "p", "q", "r", "s", "t", "u", "v", "w", "x", "y", "z">>
UpperLetters == <<"A", "B", "C", "D", "E", "F", "G", "H", "I", "J", "K", "L", "M", "N", "O", "P", "Q", "R", "S", "T", "U", "V", "W", "X", "Y", "Z">>

IndexIn(seq, ch) == CHOOSE i \in 1..Len(seq) : seq[i] = ch
IsUpper(ch) == \E i \in 1..Len(UpperLetters) : UpperLetters[i] = ch
IsLower(ch) == \E i \in 1..Len(LowerLetters) : LowerLetters[i] = ch
ToLowerChar(ch) == IF IsUpper(ch) THEN LowerLetters[IndexIn(UpperLetters, ch)] ELSE ch
ToUpperChar(ch) == IF IsLower(ch) THEN UpperLetters[IndexIn(LowerLetters, ch)] ELSE ch

\* str::to_lowercase
to_lowercase(s) == [i \in 1..Len(s) |-> ToLowerChar(s[i])]

\* The characters convert_case treats as word delimiters.
WordDelimiters == {"_", "-", " "}

Digits == <<"0", "1", "2", "3", "4", "5", "6", "7", "8", "9">>
IsDigit(ch) == \E i \in 1..Len(Digits) : Digits[i] = ch

\* Boundary::defaults() between two letters of a word: LowerUpper,
\* UpperDigit, DigitUpper, DigitLower, LowerDigit.
BoundaryBetween(p, c) ==
    \/ IsLower(p) /\ IsUpper(c)
    \/ IsUpper(p) /\ IsDigit(c)
    \/ IsDigit(p) /\ IsUpper(c)
    \/ IsDigit(p) /\ IsLower(c)
    \/ IsLower(p) /\ IsDigit(c)

\* Boundary::Acronym: after p when an upper case letter and a lower case
\* letter follow it (rest holds what follows p).
AcronymAfter(p, rest) ==
    IsUpper(p) /\ Len(rest) >= 2 /\ IsUpper(rest[1]) /\ IsLower(rest[2])

RECURSIVE Words(_, _)
\* convert_case's split into words with the default boundaries: at a
\* delimiter, which is dropped, and at the boundaries between letters and
\* digits above; empty words are left out.  acc is the word being read.
Words(s, acc) ==
    IF s = <<>> THEN (IF acc = <<>> THEN <<>> ELSE <<acc>>)
    ELSE IF Head(s) \in WordDelimiters
         THEN (IF acc = <<>> THEN <<>> ELSE <<acc>>) \o Words(Tail(s), <<>>)
    ELSE IF acc # <<>> /\ (BoundaryBetween(acc[Len(acc)], Head(s)) \/ AcronymAfter(acc[Len(acc)], s))
         THEN <<acc>> \o Words(Tail(s), <<Head(s)>>)
    ELSE Words(Tail(s), Append(acc, Head(s)))

Capitalized(w) == <<ToUpperChar(Head(w))>> \o to_lowercase(Tail(w))

RECURSIVE JoinWords(_, _)
JoinWords(ws, sep) ==
    IF ws = <<>> THEN <<>>
    ELSE IF Len(ws) = 1 THEN ws[1]
    ELSE ws[1] \o sep \o JoinWords(Tail(ws), sep)

\* to_case(Case::UpperCamel)
ToUpperCamel(s) ==
    LET ws == Words(s, <<>>)
    IN  JoinWords([i \in 1..Len(ws) |-> Capitalized(ws[i])], <<>>)

\* to_case(Case::Snake)
ToSnake(s) ==
    LET ws == Words(s, <<>>)
    IN  JoinWords([i \in 1..Len(ws) |-> to_lowercase(ws[i])], <<"_">>)

\* ------------------------------------------------------ program constants
KeyPackageName == <<"p", "a", "c", "k", "a", "g", "e", "_", "n", "a", "m", "e">>
KeyPackageLowercaseName == <<"p", "a", "c", "k", "a", "g", "e", "_", "l", "o", "w", "e", "r", "c", "a", "s", "e", "_", "n", "a", "m", "e">>
KeyDefaultAddress == <<"d", "e", "f", "a", "u", "l", "t", "_", "a", "d", "d", "r", "e", "s", "s">>
\* A placeholder other than the program's.
SentinelOther == <<"0">>
\* "_".to_string()
SentinelAddress == <<"_">>

OnlyMoveToml == 1
EmptyPackage == 2
ExampleWithCoin == 3

\* std::env::temp_dir()
TempDir == <<"/", "t", "m", "p">>
\* format!("aptos_template_{}", *self as u8)
TemplateDirName(tp) == <<"a", "p", "t", "o", "s", "_", "t", "e", "m", "p", "l", "a", "t", "e", "_">> \o <<<<"1", "2", "3">>[tp]>>
git_template_path(tp) == PathJoin(TempDir, TemplateDirName(tp))
VariantDir(variant) == IF variant = "Move" THEN <<"_", "d", "e", "f", "a", "u", "l", "t">> ELSE <<"_", "t", "y", "p", "e", "s", "c", "r", "i", "p", "t">>

\* TemplateType::url: None for OnlyMoveToml, Some for EmptyPackage, todo!()
\* for ExampleWithCoin.
url(tp) == IF tp = OnlyMoveToml THEN "None" ELSE IF tp = EmptyPackage THEN "Some" ELSE "panic"

\* TemplateType::from_str
TemplateTypeFromStr(value) ==
    IF value = <<"1">> THEN OnlyMoveToml
    ELSE IF value = <<"2">> THEN EmptyPackage
    ELSE IF value = <<"3">> THEN ExampleWithCoin
    ELSE None

\* PackageDir::to_package_name: the final component, UpperCamel.
to_package_name(dir) ==
    LET c == Components(dir)
    IN  IF c = <<>> THEN <<>> ELSE ToUpperCamel(c[Len(c)])

\* A from_str that accepts every path.
PackageDirFromStrNoCheck(f, path) == TRUE

\* PackageDir::from_str on an absolute path: Ok unless the path exists and
\* is no readable directory or holds an entry.
PackageDirFromStr(f, path) ==
    LET c == Components(path)
    IN  IF ~Exists(f, c) THEN TRUE
        ELSE IF ~IsDir(f, c) THEN FALSE
        ELSE Listing(f, c) = {}

\* A step whose result is dropped: execute goes on either way.
QuestionMarkIgnored(ok, next) == next

\* The `?` after a step: an Err returns from execute, an Ok goes on.
QuestionMark(ok, next) == IF ok THEN next ELSE "done"

\* The HashMap replace_values_in_the_template builds from execute's values.
TemplateValues(pname, lname, addr) ==
    [k \in {KeyPackageName, KeyPackageLowercaseName, KeyDefaultAddress} |->
        IF k = KeyPackageName THEN pname
        ELSE IF k = KeyPackageLowercaseName THEN lname
        ELSE addr]

\* ------------------------------------------------------ SpecScan inputs
Pieces ==
    { OpenMarker, CloseMarker, <<"{">>, <<" ">>, <<"x">>,
      <<"{", "{", "x", "}", "}">> }

RECURSIVE PieceTexts(_)
PieceTexts(n) ==
    IF n = 0 THEN {<<>>}
    ELSE LET prev == PieceTexts(n - 1)
         IN  prev \cup {p \o t : p \in Pieces, t \in prev}

\* The input of test_str_to_insert_position.
Fixture ==
    <<"{","{","1","2","3","}","}",
      "{","{"," ","4","5","6"," ","}","}",
      "{","{","{","7","8","9","}","}","}">>

Texts == PieceTexts(MaxPieces) \cup {Fixture}

\* HashMap<&str, &String>: a function from the mapped keys to their values.
EmptyMap == [k \in {} |-> <<>>]
Contexts ==
    { EmptyMap,
      [k \in {<<"x">>} |-> <<"Y">>],
      [k \in {<<"x">>} |-> <<>>] }

\* ------------------------------------------------------- SpecScan machine
\* The variables a specification does not use keep these values.
IdleFs == fs = <<>> /\ walk = <<>>
IdleCp ==
    /\ cp_from = <<>> /\ cp_to = <<>> /\ cp_status = "idle"
    /\ cp_results = <<>> /\ fs_at_call = <<>>
IdleEx ==
    /\ package_dir = <<>> /\ name = <<>> /\ template_type_flag = 0
    /\ skip_profile_creation = FALSE /\ assume_yes = FALSE
    /\ package_name = <<>> /\ package_lowercase_name = <<>> /\ template_type = 0
    /\ profile_address_hex = <<>> /\ ctp = "none" /\ pc = "idle" /\ outcome = "idle"
    /\ log = <<>> /\ prompted = FALSE /\ validated = "none"

InitScan ==
    /\ IdleFs /\ IdleCp /\ IdleEx
    /\ text \in Texts
    /\ key_value \in Contexts
    /\ spc = "scan"
    /\ cur = 0
    /\ result = <<>>
    /\ replaced = text
    /\ ti = 1

\* while let Some(start_pos) = text[cur..].find("{{"), with a "}}" after it.
ScanPush ==
    /\ spc = "scan"
    /\ FindOpen(text, cur) # None
    /\ FindClose(text, FindOpen(text, cur)) # None
    /\ LET it == scan_iteration(text, cur, result)
       IN  cur' = it.cur /\ result' = it.result
    /\ UNCHANGED <<text, key_value, spc, replaced, ti>>
    /\ UNCHANGED notScan

\* None => continue
ScanContinue ==
    /\ spc = "scan"
    /\ FindOpen(text, cur) # None
    /\ FindClose(text, FindOpen(text, cur)) = None
    /\ LET it == scan_iteration(text, cur, result)
       IN  cur' = it.cur /\ result' = it.result
    /\ UNCHANGED <<text, key_value, spc, replaced, ti>>
    /\ UNCHANGED notScan

\* The loop condition fails: str_to_insert_position returns result.
ScanReturn ==
    /\ spc = "scan"
    /\ scan_iteration(text, cur, result).exit
    /\ spc' = "replace"
    /\ UNCHANGED <<text, key_value, cur, result, replaced, ti>>
    /\ UNCHANGED notScan

\* for (key, position_str) in ...: one token.
ReplaceToken ==
    /\ spc = "replace"
    /\ ti <= Len(result)
    /\ replaced' = replace_token(replaced, result[ti], key_value)
    /\ ti' = ti + 1
    /\ UNCHANGED <<text, key_value, spc, cur, result>>
    /\ UNCHANGED notScan

ReplaceReturn ==
    /\ spc = "replace"
    /\ ti > Len(result)
    /\ spc' = "done"
    /\ UNCHANGED <<text, key_value, cur, result, replaced, ti>>
    /\ UNCHANGED notScan

NextScan ==
    \/ ScanPush
    \/ ScanContinue
    \/ ScanReturn
    \/ ReplaceToken
    \/ ReplaceReturn

SpecScan == InitScan /\ [][NextScan]_vars

\* The loop is sequential code: it keeps running while it can take a step.
SpecScanFair == SpecScan /\ WF_vars(NextScan)

\* ----------------------------------------------------------- SpecCp inputs
CpFrom == <<"/", "a">>
CpTo == <<"/", "t">>

EntryNames == {<<"a">>, <<"b">>}
\* The relative paths a tree of the model may hold: two levels.
CandPaths == {<<n>> : n \in EntryNames} \cup {<<n, m>> : n \in EntryNames, m \in EntryNames}

\* The trees of at most n entries: each entry a file or a directory, each
\* entry's parent a directory of the tree.
Trees(n) ==
    {t \in UNION {[S -> {"file", "dir"}] :
                    S \in {X \in SUBSET CandPaths : Cardinality(X) <= n}} :
        \A q \in DOMAIN t : Len(q) > 1 => (Parent(q) \in DOMAIN t /\ t[Parent(q)] = "dir")}

\* A source file holds its own name; a file already in the destination
\* holds custom content.
SrcData(q) == <<"s">> \o q[Len(q)]
CustomData == <<"c">>

CpFileSystem(src, dst) ==
    LET a == Components(CpFrom)
        b == Components(CpTo)
        dom == {<<>>, a, b} \cup {a \o q : q \in DOMAIN src} \cup {b \o q : q \in DOMAIN dst}
    IN  [c \in dom |->
            IF IsPrefix(a, c) /\ c # a
            THEN LET q == SubSeq(c, Len(a) + 1, Len(c))
                 IN  IF src[q] = "dir" THEN DirNode ELSE FileNode(SrcData(q))
            ELSE IF IsPrefix(b, c) /\ c # b
            THEN LET q == SubSeq(c, Len(b) + 1, Len(c))
                 IN  IF dst[q] = "dir" THEN DirNode ELSE FileNode(CustomData)
            ELSE DirNode]

\* --------------------------------------------------------- SpecCp machine
IdleScan ==
    /\ text = <<>> /\ key_value = <<>> /\ spc = "idle" /\ cur = 0
    /\ result = <<>> /\ replaced = <<>> /\ ti = 0

InitCp ==
    /\ IdleScan /\ IdleEx
    /\ \/ \E src \in Trees(MaxSrcEntries), dst \in Trees(MaxDstEntries) :
             fs = CpFileSystem(src, dst) /\ cp_to = CpTo
       \* from and to the same directory
       \/ \E src \in Trees(MaxSrcEntries), none \in Trees(0) :
             fs = CpFileSystem(src, none) /\ cp_to = CpFrom
    /\ cp_from = CpFrom
    /\ walk = WalkStart(fs, cp_from)
    /\ cp_status = "running"
    /\ cp_results = <<>>
    /\ fs_at_call = fs

\* One pass of the for loop that ends without an error.
CpEntry ==
    /\ cp_status = "running"
    /\ \E o \in WalkNext(fs, walk) :
          LET r == cp_r_entry(fs, cp_from, cp_to, o.path)
          IN  /\ r.ok
              /\ fs' = r.fs
              /\ walk' = o.walk
    /\ UNCHANGED <<cp_from, cp_to, cp_status, cp_results, fs_at_call>>
    /\ UNCHANGED notCp

\* A failure that undoes what the call has written.
CpAbortRollback ==
    /\ cp_status = "running"
    /\ \E o \in WalkNext(fs, walk) : ~cp_r_entry(fs, cp_from, cp_to, o.path).ok
    /\ fs' = fs_at_call
    /\ walk' = <<>>
    /\ cp_status' = "err"
    /\ cp_results' = Append(cp_results, "err")
    /\ UNCHANGED <<cp_from, cp_to, fs_at_call>>
    /\ UNCHANGED notCp

\* fs::copy(..)? or fs::create_dir(..)? returns the error.
CpAbort ==
    /\ cp_status = "running"
    /\ \E o \in WalkNext(fs, walk) :
          LET r == cp_r_entry(fs, cp_from, cp_to, o.path)
          IN  /\ ~r.ok
              /\ fs' = r.fs
    /\ walk' = <<>>
    /\ cp_status' = "err"
    /\ cp_results' = Append(cp_results, "err")
    /\ UNCHANGED <<cp_from, cp_to, fs_at_call>>
    /\ UNCHANGED notCp

\* The walk is over: Ok(()).
CpReturn ==
    /\ cp_status = "running"
    /\ WalkNext(fs, walk) = {}
    /\ walk' = <<>>
    /\ cp_status' = "ok"
    /\ cp_results' = Append(cp_results, "ok")
    /\ UNCHANGED <<fs, cp_from, cp_to, fs_at_call>>
    /\ UNCHANGED notCp

\* cp_r is called again on the same pair.
CpCallAgain ==
    /\ cp_status \in {"ok", "err"}
    /\ Len(cp_results) < MaxCalls
    /\ walk' = WalkStart(fs, cp_from)
    /\ cp_status' = "running"
    /\ fs_at_call' = fs
    /\ UNCHANGED <<fs, cp_from, cp_to, cp_results>>
    /\ UNCHANGED notCp

NextCp ==
    \/ CpEntry
    \/ CpAbort
    \/ CpReturn
    \/ CpCallAgain

SpecCp == InitCp /\ [][NextCp]_vars

\* ------------------------------------------------------------ Spec inputs
Some(v) == [some |-> TRUE, v |-> v]
NoneOpt == [some |-> FALSE, v |-> <<>>]

\* The path argument, already absolute.
PackageDirArg == <<"/", "w", "/", "d", "e", "m", "o">>
\* --name
NameFlags == {NoneOpt, Some(<<"M", "y", "P", "k", "g">>)}
\* What the user may type at the prompts: lines with and without the line
\* end that stdin delivers.
NameLines == {<<>>, <<" ", "m", "y", " ", "p", "k", "g", "\n">>}
TypeLines == {<<>>, <<"1">>, <<"2", "\n">>, <<"3">>, <<"z">>}
CreateLines == {<<>>, <<"N">>, <<"n", "o", "\r", "\n">>, <<"y">>}
LangLines == {<<>>, <<"y", "\n">>, <<"n">>, <<"N", "o">>, <<"z">>}

\* to_hex_literal of the account the profile initializer records.
ProfileAddress == <<"0", "x", "a">>
AptosDir == <<".", "a", "p", "t", "o", "s">>
ConfigYaml == <<"c", "o", "n", "f", "i", "g", ".", "y", "a", "m", "l">>
MoveToml == <<"M", "o", "v", "e", ".", "t", "o", "m", "l">>
SourcesDir == <<"s", "o", "u", "r", "c", "e", "s">>

\* The names and file contents of the templates of the model.
TokenName == <<"{", "{", "p", "a", "c", "k", "a", "g", "e", "_", "n", "a", "m", "e", "}", "}">>
PlainName == <<"s">>
TplNames == {TokenName, PlainName}
\* A file's content: both tokens of a manifest, or an opening marker alone.
TokenContent == TokenName \o OpenMarker \o <<" ">> \o KeyDefaultAddress \o <<" ">> \o CloseMarker
TplContents == {TokenContent, OpenMarker}
TplNodes == {DirNode} \cup {FileNode(d) : d \in TplContents}

EmptyTree == [q \in {} |-> DirNode]

\* The trees with one entry more than t.
Extend(t) ==
    LET dirs == {<<>>} \cup {d \in DOMAIN t : t[d].kind = "dir"}
        new == {d \o <<n>> : d \in dirs, n \in TplNames} \ DOMAIN t
    IN  {Put(t, q, node) : q \in new, node \in TplNodes}

RECURSIVE TreesUpTo(_)
TreesUpTo(n) ==
    IF n = 0 THEN {EmptyTree}
    ELSE LET prev == TreesUpTo(n - 1)
         IN  prev \cup UNION {Extend(t) : t \in prev}

TemplateTrees == TreesUpTo(MaxTemplateEntries)

\* f with tree t below directory c (created with its missing ancestors).
Materialize(f, c, t) ==
    LET base == CreateDirAll(f, c).fs
    IN  [q \in DOMAIN base \cup {c \o p : p \in DOMAIN t} |->
            IF IsPrefix(c, q) /\ q # c /\ SubSeq(q, Len(c) + 1, Len(q)) \in DOMAIN t
            THEN t[SubSeq(q, Len(c) + 1, Len(q))]
            ELSE base[q]]

\* What a clone leaves at tmp_dir: the tree in both variant directories, or
\* the tree at the top with no variant directory.
Cloned(f, tp, t, layout) ==
    LET top == Components(git_template_path(tp))
    IN  IF layout = "variants"
        THEN Materialize(Materialize(f, top \o <<VariantDir("Move")>>, t),
                         top \o <<VariantDir("MoveTs")>>, t)
        ELSE Materialize(f, top, t)

RootFs == [q \in {<<>>, Components(TempDir)} |-> DirNode]

\* A template cached by an earlier run: one that ships a .aptos directory.
CachedTree == [q \in {<<AptosDir>>} |-> DirNode]

\* The states of the target path before the run.
TargetStates == {"parent_absent", "parent_file", "absent", "empty", "nonempty", "file"}

WithTarget(f, dir, st) ==
    LET c == Components(dir)
        old == c \o <<<<"o", "l", "d">>>>
    IN  IF st = "parent_absent" THEN f
        ELSE IF st = "parent_file" THEN Put(f, Parent(c), FileNode(<<>>))
        ELSE IF st = "absent" THEN CreateDirAll(f, Parent(c)).fs
        ELSE IF st = "empty" THEN CreateDirAll(f, c).fs
        ELSE IF st = "nonempty" THEN Put(CreateDirAll(f, c).fs, old, FileNode(<<"o">>))
        ELSE Put(CreateDirAll(f, Parent(c)).fs, c, FileNode(<<>>))

\* What PackageDir::from_str sees at the path.
TargetState(f, dir) ==
    LET c == Components(dir)
    IN  IF ~Exists(f, c) THEN "absent"
        ELSE IF ~IsDir(f, c) THEN "file"
        ELSE IF Listing(f, c) = {} THEN "empty" ELSE "nonempty"

ExFileSystems ==
    {WithTarget(base, PackageDirArg, st) :
        base \in {RootFs, Cloned(RootFs, EmptyPackage, CachedTree, "flat")},
        st \in TargetStates}

\* A path argument whose last component is a token, and the directory the
\* token's value names next to it.
PackageDirToken == <<"/", "w", "/">> \o TokenName
NamedSibling == <<"/", "w", "/", "M", "y", "P", "k", "g">>

\* The command lines of the model with the file system each one meets:
\* the plain target in every target state, and the token-named target,
\* absent, with --name given and the named directory beside it.
ExRuns ==
    {[fs |-> f, dir |-> PackageDirArg, name |-> n] : f \in ExFileSystems, n \in NameFlags}
    \cup {[fs |-> CreateDirAll(RootFs, Components(NamedSibling)).fs,
           dir |-> PackageDirToken,
           name |-> Some(<<"M", "y", "P", "k", "g">>)]}

\* ----------------------------------------------------------- Spec machine
Logged(step, ok) == Append(log, [step |-> step, ok |-> ok])

Init ==
    /\ IdleScan
    /\ IdleCp
    /\ \E r \in ExRuns : fs = r.fs /\ package_dir = r.dir /\ name = r.name
    /\ walk = <<>>
    /\ template_type_flag \in {None, OnlyMoveToml, EmptyPackage, ExampleWithCoin}
    /\ skip_profile_creation \in BOOLEAN
    /\ assume_yes \in BOOLEAN
    /\ package_name = <<>>
    /\ package_lowercase_name = <<>>
    /\ template_type = None
    /\ profile_address_hex = <<>>
    /\ ctp = "none"
    /\ pc = "parse"
    /\ outcome = "running"
    /\ log = <<>>
    /\ prompted = FALSE
    /\ validated = "none"

\* clap parses the path argument with PackageDir::from_str before execute.
ParsePackageDir ==
    /\ pc = "parse"
    /\ validated' = TargetState(fs, package_dir)
    /\ IF PackageDirFromStr(fs, package_dir)
       THEN pc' = "package_name" /\ outcome' = outcome
       ELSE pc' = "done" /\ outcome' = "rejected"
    /\ UNCHANGED <<scanVars, fsVars, cpVars, flagVars, localVars, log, prompted>>

\* package_name(): --name, or the default under --assume-yes.
PackageNameGiven ==
    /\ pc = "package_name"
    /\ name.some \/ assume_yes
    /\ package_name' = IF name.some THEN name.v ELSE to_package_name(package_dir)
    /\ package_lowercase_name' = ToSnake(package_name')
    /\ pc' = "template_type"
    /\ UNCHANGED <<scanVars, fsVars, cpVars, flagVars, template_type,
                   profile_address_hex, ctp, outcome, ghostVars>>

\* package_name(): the prompt.
PackageNamePrompt ==
    /\ pc = "package_name"
    /\ ~name.some /\ ~assume_yes
    /\ \E line \in NameLines :
          LET typed == ToUpperCamel(trim(line))
          IN  package_name' = IF typed = <<>> THEN to_package_name(package_dir) ELSE typed
    /\ package_lowercase_name' = ToSnake(package_name')
    /\ prompted' = TRUE
    /\ pc' = "template_type"
    /\ UNCHANGED <<scanVars, fsVars, cpVars, flagVars, template_type,
                   profile_address_hex, ctp, outcome, log, validated>>

\* read_line("Package name")? fails.
PackageNameReadErr ==
    /\ pc = "package_name"
    /\ ~name.some /\ ~assume_yes
    /\ prompted' = TRUE
    /\ pc' = "done"
    /\ outcome' = "Err"
    /\ UNCHANGED <<scanVars, fsVars, cpVars, flagVars, localVars, log, validated>>

\* template_type(): --template-type.
TemplateTypeGiven ==
    /\ pc = "template_type"
    /\ template_type_flag # None
    /\ template_type' = template_type_flag
    /\ pc' = "ask_create_package"
    /\ UNCHANGED <<scanVars, fsVars, cpVars, flagVars, package_name,
                   package_lowercase_name, profile_address_hex, ctp, outcome, ghostVars>>

\* template_type(): one pass of the prompt loop; a line that is no number
\* of a template repeats the loop.
TemplateTypePrompt ==
    /\ pc = "template_type"
    /\ template_type_flag = None
    /\ \E line \in TypeLines :
          LET number == trim(line)
              tp == IF number = <<>> THEN OnlyMoveToml ELSE TemplateTypeFromStr(trim(number))
          IN  IF tp = None
              THEN template_type' = template_type /\ pc' = pc
              ELSE template_type' = tp /\ pc' = "ask_create_package"
    /\ prompted' = TRUE
    /\ UNCHANGED <<scanVars, fsVars, cpVars, flagVars, package_name,
                   package_lowercase_name, profile_address_hex, ctp, outcome, log, validated>>

\* read_line("teplate_type")? fails.
TemplateTypeReadErr ==
    /\ pc = "template_type"
    /\ template_type_flag = None
    /\ prompted' = TRUE
    /\ pc' = "done"
    /\ outcome' = "Err"
    /\ UNCHANGED <<scanVars, fsVars, cpVars, flagVars, localVars, log, validated>>

\* ask_create_package under --assume-yes: returns at once.
AskCreateSkip ==
    /\ pc = "ask_create_package"
    /\ assume_yes
    /\ pc' = "create_dir"
    /\ UNCHANGED <<scanVars, fsVars, cpVars, flagVars, localVars, outcome, ghostVars>>

\* ask_create_package: template_type.url() is todo!() for ExampleWithCoin.
AskCreateUrlPanic ==
    /\ pc = "ask_create_package"
    /\ ~assume_yes
    /\ url(template_type) = "panic"
    /\ pc' = "done"
    /\ outcome' = "panic"
    /\ UNCHANGED <<scanVars, fsVars, cpVars, flagVars, localVars, ghostVars>>

\* A confirmation asked after the target directory has been created.
AskCreateAnswerLate ==
    /\ pc = "ask_create_package"
    /\ ~assume_yes
    /\ url(template_type) # "panic"
    /\ \E line \in CreateLines :
          IF to_lowercase(trim(line)) \in {<<"n">>, <<"n", "o">>}
          THEN pc' = "done" /\ outcome' = "exit"
          ELSE pc' = "create_dir" /\ outcome' = outcome
    /\ fs' = fs_create_dir_all(fs, package_dir).fs
    /\ prompted' = TRUE
    /\ UNCHANGED <<scanVars, walk, cpVars, flagVars, localVars, log, validated>>

\* ask_create_package: the answer; n or no is exit(1).
AskCreateAnswer ==
    /\ pc = "ask_create_package"
    /\ ~assume_yes
    /\ url(template_type) # "panic"
    /\ \E line \in CreateLines :
          IF to_lowercase(trim(line)) \in {<<"n">>, <<"n", "o">>}
          THEN pc' = "done" /\ outcome' = "exit"
          ELSE pc' = "create_dir" /\ outcome' = outcome
    /\ prompted' = TRUE
    /\ UNCHANGED <<scanVars, fsVars, cpVars, flagVars, localVars, log, validated>>

\* ask_create_package: read_line("Create").unwrap() on an error.
AskCreateReadPanic ==
    /\ pc = "ask_create_package"
    /\ ~assume_yes
    /\ url(template_type) # "panic"
    /\ prompted' = TRUE
    /\ pc' = "done"
    /\ outcome' = "panic"
    /\ UNCHANGED <<scanVars, fsVars, cpVars, flagVars, localVars, log, validated>>

\* todo!("download from github")
ExampleWithCoinTodo ==
    /\ pc = "create_dir"
    /\ template_type = ExampleWithCoin
    /\ pc' = "done"
    /\ outcome' = "panic"
    /\ UNCHANGED <<scanVars, fsVars, cpVars, flagVars, localVars, ghostVars>>

\* fs::create_dir_all(package_dir)?
CreateDir ==
    /\ pc = "create_dir"
    /\ template_type # ExampleWithCoin
    /\ LET r == fs_create_dir_all(fs, package_dir)
       IN  /\ fs' = r.fs
           /\ log' = Logged("create_dir_all", r.ok)
           /\ pc' = QuestionMark(r.ok, "profile")
    /\ outcome' = IF pc' = "done" THEN "Err" ELSE outcome
    /\ UNCHANGED <<scanVars, walk, cpVars, flagVars, localVars, prompted, validated>>

\* --skip-profile-creation: "_".to_string()
ProfileSkip ==
    /\ pc = "profile"
    /\ skip_profile_creation
    /\ profile_address_hex' = SentinelAddress
    /\ pc' = "branch"
    /\ UNCHANGED <<scanVars, fsVars, cpVars, flagVars, package_name,
                   package_lowercase_name, template_type, ctp, outcome, ghostVars>>

\* What `aptos init` leaves in the package directory.
InitToolWrites(f, dir, data) ==
    LET c == Components(dir)
    IN  Put(Put(f, c \o <<AptosDir>>, DirNode), c \o <<AptosDir, ConfigYaml>>, FileNode(data))

\* aptos_init_profile_default(package_dir).await?: the initializer fails,
\* or records an account, or records none.
ProfileInit ==
    /\ pc = "profile"
    /\ ~skip_profile_creation
    /\ \E res \in {"fail", "account", "no_account"} :
          /\ fs' = IF res = "fail" THEN fs
                   ELSE InitToolWrites(fs, package_dir,
                                       IF res = "account" THEN ProfileAddress ELSE <<>>)
          /\ profile_address_hex' = IF res = "account" THEN ProfileAddress ELSE profile_address_hex
          /\ log' = Logged("aptos_init_profile_default", res = "account")
          /\ pc' = QuestionMark(res = "account", "branch")
    /\ outcome' = IF pc' = "done" THEN "Err" ELSE outcome
    /\ UNCHANGED <<scanVars, walk, cpVars, flagVars, package_name,
                   package_lowercase_name, template_type, ctp, prompted, validated>>

\* What `aptos move init` leaves in the package directory.
MoveInitWrites(f, dir, pname) ==
    LET c == Components(dir)
    IN  Put(Put(f, c \o <<SourcesDir>>, DirNode), c \o <<MoveToml>>, FileNode(pname))

\* A test for the minimal template that never matches.
IsOnlyMoveTomlNever(tp) == FALSE

\* matches!(template_type, TemplateType::OnlyMoveToml)
IsOnlyMoveToml(tp) == tp = OnlyMoveToml

\* return self.aptos_move_init(&package_name, package_dir).await
MoveInit ==
    /\ pc = "branch"
    /\ IsOnlyMoveToml(template_type)
    /\ \E ok \in BOOLEAN :
          /\ fs' = IF ok THEN MoveInitWrites(fs, package_dir, package_name) ELSE fs
          /\ log' = Logged("aptos_move_init", ok)
          /\ outcome' = IF ok THEN "Ok" ELSE "Err"
    /\ pc' = "done"
    /\ UNCHANGED <<scanVars, walk, cpVars, flagVars, localVars, prompted, validated>>

\* A test of tmp_dir that never finds it.
TmpDirExistsNever(f, tp) == FALSE

\* tmp_dir.exists()
TmpDirExists(f, tp) == Exists(f, Components(git_template_path(tp)))

\* git_download()?: tmp_dir exists, nothing is fetched.
GitDownloadCached ==
    /\ pc = "branch"
    /\ ~IsOnlyMoveToml(template_type)
    /\ TmpDirExists(fs, template_type)
    /\ log' = Logged("git_download", TRUE)
    /\ pc' = QuestionMark(TRUE, "ask_type_language")
    /\ UNCHANGED <<scanVars, fsVars, cpVars, flagVars, localVars, outcome, prompted, validated>>

\* git_download()?: git2::Repository::clone succeeds with some template.
GitDownloadClone ==
    /\ pc = "branch"
    /\ ~IsOnlyMoveToml(template_type)
    /\ ~TmpDirExists(fs, template_type)
    /\ \E t \in TemplateTrees, layout \in {"variants", "flat"} :
          fs' = Cloned(fs, template_type, t, layout)
    /\ log' = Logged("git_download", TRUE)
    /\ pc' = QuestionMark(TRUE, "ask_type_language")
    /\ UNCHANGED <<scanVars, walk, cpVars, flagVars, localVars, outcome, prompted, validated>>

\* git_download()?: the clone fails.
GitDownloadFail ==
    /\ pc = "branch"
    /\ ~IsOnlyMoveToml(template_type)
    /\ ~TmpDirExists(fs, template_type)
    /\ log' = Logged("git_download", FALSE)
    /\ pc' = QuestionMark(FALSE, "ask_type_language")
    /\ outcome' = IF pc' = "done" THEN "Err" ELSE outcome
    /\ UNCHANGED <<scanVars, fsVars, cpVars, flagVars, localVars, prompted, validated>>

\* ask_type_language() under --assume-yes.
AskTypeLanguageDefault ==
    /\ pc = "ask_type_language"
    /\ assume_yes
    /\ ctp' = "MoveTs"
    /\ pc' = "copy_template_to"
    /\ UNCHANGED <<scanVars, fsVars, cpVars, flagVars, package_name, package_lowercase_name,
                   template_type, profile_address_hex, outcome, ghostVars>>

\* ask_type_language(): one pass of the prompt loop; a failed read or any
\* other answer repeats it.
AskTypeLanguagePrompt ==
    /\ pc = "ask_type_language"
    /\ ~assume_yes
    /\ \/ \E line \in LangLines :
             LET answer == trim(to_lowercase(line))
             IN  IF answer \in {<<>>, <<"y">>, <<"y", "e", "s">>}
                 THEN ctp' = "MoveTs" /\ pc' = "copy_template_to"
                 ELSE IF answer \in {<<"n">>, <<"n", "o">>}
                 THEN ctp' = "Move" /\ pc' = "copy_template_to"
                 ELSE ctp' = ctp /\ pc' = pc
       \/ ctp' = ctp /\ pc' = pc
    /\ prompted' = TRUE
    /\ UNCHANGED <<scanVars, fsVars, cpVars, flagVars, package_name, package_lowercase_name,
                   template_type, profile_address_hex, outcome, log, validated>>

\* copy_template_to: the variant's directory if it exists, else the whole
\* template.
CopyFrom(f, tp, variant) ==
    LET template_path == git_template_path(tp)
        from == PathJoin(template_path, VariantDir(variant))
    IN  IF Exists(f, Components(from)) THEN from ELSE template_path

\* copy_template_to(&package_dir, ctp) calls cp_r(&from, to).
CopyTemplateCall ==
    /\ pc = "copy_template_to"
    /\ cp_status = "idle"
    /\ cp_from' = CopyFrom(fs, template_type, ctp)
    /\ cp_to' = package_dir
    /\ walk' = WalkStart(fs, cp_from')
    /\ cp_status' = "running"
    /\ fs_at_call' = fs
    /\ UNCHANGED <<scanVars, fs, cp_results, exVars>>

\* copy_template_to(..)? returns; replace_values_in_the_template starts
\* its walk of package_dir.
CopyTemplateReturn ==
    /\ pc = "copy_template_to"
    /\ cp_status \in {"ok", "err"}
    /\ log' = Logged("copy_template_to", cp_status = "ok")
    /\ pc' = QuestionMark(cp_status = "ok", "replace")
    /\ outcome' = IF pc' = "done" THEN "Err" ELSE outcome
    /\ walk' = IF pc' = "done" THEN <<>> ELSE WalkStart(fs, package_dir)
    /\ UNCHANGED <<scanVars, fs, cpVars, flagVars, localVars, prompted, validated>>

StepOk(f) == [status |-> "ok", fs |-> f]
StepHang(f) == [status |-> "hang", fs |-> f]
\* The ? on an io::Result.
StepOf(r) == [status |-> IF r.ok THEN "ok" ELSE "err", fs |-> r.fs]

\* if content != new_content { fs::write(&path, new_content)?; }
WriteContent(f, path, content, new_content) ==
    IF new_content.hang THEN StepHang(f)
    ELSE IF content = new_content.text THEN StepOk(f)
    ELSE StepOf(fs_write(f, path, new_content.text))

\* if path.is_file() { .. }
replace_content(f, path, kv) ==
    IF IsFile(f, Components(path))
    THEN WriteContent(f, path, f[Components(path)].data,
                      str_replace_position(f[Components(path)].data, kv))
    ELSE StepOk(f)

\* if from_path != to_path { fs::rename(&from_path, to_path)?; }
RenamePath(f, from_path, to_path) ==
    IF to_path.hang THEN StepHang(f)
    ELSE IF from_path = to_path.text THEN StepOk(f)
    ELSE StepOf(fs_rename(f, from_path, to_path.text))

\* The rename part runs when the content part has returned normally.
ThenRename(written, path, kv) ==
    IF written.status # "ok" THEN written
    ELSE RenamePath(written.fs, path, str_replace_position(path, kv))

\* The body of the loop of replace_values_in_the_template for one path:
\* rewrite a file's content, then rename the path if its string changes.
replace_entry(f, path, kv) == ThenRename(replace_content(f, path, kv), path, kv)

HashMapOfRun == TemplateValues(package_name, package_lowercase_name, profile_address_hex)

EntryIs(r, status) == r.status = status /\ fs' = r.fs

\* One pass of the loop that ends without an error.
TemplateEntry ==
    /\ pc = "replace"
    /\ \E o \in WalkNext(fs, walk) :
          /\ EntryIs(replace_entry(fs, o.path, HashMapOfRun), "ok")
          /\ walk' = o.walk
    /\ UNCHANGED <<scanVars, cpVars, exVars>>

\* fs::write(..)? or fs::rename(..)? returns the error.
TemplateAbort ==
    /\ pc = "replace"
    /\ \E o \in WalkNext(fs, walk) :
          EntryIs(replace_entry(fs, o.path, HashMapOfRun), "err")
    /\ walk' = <<>>
    /\ log' = Logged("replace_values_in_the_template", FALSE)
    /\ pc' = QuestionMark(FALSE, "done")
    /\ outcome' = "Err"
    /\ UNCHANGED <<scanVars, cpVars, flagVars, localVars, prompted, validated>>

\* str_replace_position never returns.
TemplateHang ==
    /\ pc = "replace"
    /\ \E o \in WalkNext(fs, walk) :
          EntryIs(replace_entry(fs, o.path, HashMapOfRun), "hang")
    /\ walk' = <<>>
    /\ pc' = "done"
    /\ outcome' = "hang"
    /\ UNCHANGED <<scanVars, cpVars, flagVars, localVars, ghostVars>>

\* The walk is over: Ok(()).
TemplateReturn ==
    /\ pc = "replace"
    /\ WalkNext(fs, walk) = {}
    /\ walk' = <<>>
    /\ log' = Logged("replace_values_in_the_template", TRUE)
    /\ pc' = "done"
    /\ outcome' = "Ok"
    /\ UNCHANGED <<scanVars, fs, cpVars, flagVars, localVars, prompted, validated>>

Next ==
    \/ ParsePackageDir
    \/ PackageNameGiven
    \/ PackageNamePrompt
    \/ PackageNameReadErr
    \/ TemplateTypeGiven
    \/ TemplateTypePrompt
    \/ TemplateTypeReadErr
    \/ AskCreateSkip
    \/ AskCreateUrlPanic
    \/ AskCreateAnswer
    \/ AskCreateReadPanic
    \/ ExampleWithCoinTodo
    \/ CreateDir
    \/ ProfileSkip
    \/ ProfileInit
    \/ MoveInit
    \/ GitDownloadCached
    \/ GitDownloadClone
    \/ GitDownloadFail
    \/ AskTypeLanguageDefault
    \/ AskTypeLanguagePrompt
    \/ CopyTemplateCall
    \/ CpEntry
    \/ CpAbort
    \/ CpReturn
    \/ CopyTemplateReturn
    \/ TemplateEntry
    \/ TemplateAbort
    \/ TemplateHang
    \/ TemplateReturn

Spec == Init /\ [][Next]_vars

\* ---------------------------------------------------------------- SpecGit
\* git_download called again and again for the same template.
InitGit ==
    /\ IdleScan /\ IdleCp
    /\ fs \in {RootFs, Cloned(RootFs, EmptyPackage, CachedTree, "flat")}
    /\ walk = <<>>
    /\ package_dir = <<>> /\ name = <<>> /\ template_type_flag = 0
    /\ skip_profile_creation = FALSE /\ assume_yes = FALSE
    /\ package_name = <<>> /\ package_lowercase_name = <<>>
    /\ template_type = EmptyPackage
    /\ profile_address_hex = <<>> /\ ctp = "none"
    /\ pc = "git_download" /\ outcome = "idle"
    /\ log = <<>> /\ prompted = FALSE /\ validated = "none"

\* One call of git_download: tmp_dir is there and is returned, or the clone
\* is run and succeeds with some template, or the clone is run and fails.
GitCall ==
    /\ pc = "git_download"
    /\ Len(log) < MaxGitCalls
    /\ \/ /\ TmpDirExists(fs, template_type)
          /\ fs' = fs
          /\ log' = Logged("git_download", TRUE)
       \/ /\ ~TmpDirExists(fs, template_type)
          /\ \E t \in TemplateTrees, layout \in {"variants", "flat"} :
                fs' = Cloned(fs, template_type, t, layout)
          /\ log' = Logged("git_download", TRUE)
       \/ /\ ~TmpDirExists(fs, template_type)
          /\ fs' = fs
          /\ log' = Logged("git_download", FALSE)
    /\ UNCHANGED <<scanVars, walk, cpVars, flagVars, localVars, pc, outcome, prompted, validated>>

NextGit == GitCall

SpecGit == InitGit /\ [][NextGit]_vars

\* ------------------------------------------------------ claims C5 .. C9
ScanFinished == spc \in {"replace", "done"}

MappedSpans(toks, kv) == {toks[i][2] : i \in {j \in 1..Len(toks) : toks[j][1] \in DOMAIN kv}}

ValueOfSpan(toks, kv, span) ==
    kv[(CHOOSE tok \in {toks[i] : i \in 1..Len(toks)} : tok[2] = span)[1]]

RECURSIVE EveryOccurrenceReplaced(_, _, _)
\* s with every occurrence of a mapped token's literal span replaced by the
\* mapped value, in one pass from the left.
EveryOccurrenceReplaced(s, toks, kv) ==
    IF s = <<>> THEN <<>>
    ELSE LET here == {m \in MappedSpans(toks, kv) :
                        Len(m) <= Len(s) /\ SubSeq(s, 1, Len(m)) = m}
         IN  IF here = {}
             THEN <<Head(s)>> \o EveryOccurrenceReplaced(Tail(s), toks, kv)
             ELSE LET m == CHOOSE m \in here : TRUE
                  IN  ValueOfSpan(toks, kv, m)
                        \o EveryOccurrenceReplaced(SubSeq(s, Len(m) + 1, Len(s)), toks, kv)

\* C5: every token whose key is absent from the context appears verbatim in
\* the output of str_replace_position, whatever other tokens the text holds.
C5_UnmappedPassthrough ==
    spc = "done" =>
        \A i \in 1..Len(result) :
            result[i][1] \notin DOMAIN key_value => StrContains(replaced, result[i][2])

\* C6: str_replace_position replaces every literal occurrence of every token
\* whose key is in the context by the mapped value.
C6_SubstitutionTotality ==
    spc = "done" => replaced = EveryOccurrenceReplaced(text, result, key_value)

\* C7: the token scan terminates on every input; an opening marker with no
\* closing marker after it does not prevent the scan from finishing.
C7_ScanTerminates == <>(spc # "scan")

\* The 0-based offsets of the markers in a text.
OpenAt(t) == {i \in 0..(Len(t) - 2) : Slice(t, i, i + 2) = OpenMarker}
CloseAt(t) == {i \in 0..(Len(t) - 2) : Slice(t, i, i + 2) = CloseMarker}

RECURSIVE SpansFrom(_, _)
\* The literal spans [start, end) the claim describes: each starts at the
\* first opening marker at or after the end of the one before and ends with
\* the next closing marker after that start.
SpansFrom(t, from) ==
    LET starts == {i \in OpenAt(t) : i >= from}
    IN  IF starts = {} THEN <<>>
        ELSE LET s == Min(starts)
                 ends == {j \in CloseAt(t) : j >= s + 2}
             IN  IF ends = {} THEN <<>>
                 ELSE <<<<s, Min(ends) + 2>>>> \o SpansFrom(t, Min(ends) + 2)

\* s without its leading and trailing characters of cs.
Stripped(s, cs) ==
    LET keep == {i \in 1..Len(s) : s[i] \notin cs}
    IN  IF keep = {} THEN <<>> ELSE SubSeq(s, Min(keep), Max(keep))

\* The key of a literal span: white space, opening braces, closing braces
\* and white space again stripped from its two ends.
KeyOfSpan(span) ==
    Stripped(Stripped(Stripped(Stripped(span, WhiteSpace), {"{"}), {"}"}), WhiteSpace)

FixtureTokens ==
    << <<(<<"1","2","3">>), (<<"{","{","1","2","3","}","}">>)>>,
       <<(<<"4","5","6">>), (<<"{","{"," ","4","5","6"," ","}","}">>)>>,
       <<(<<"7","8","9">>), (<<"{","{","{","7","8","9","}","}">>)>> >>

\* C8: the tokens come in left-to-right order with non-overlapping literal
\* spans, each from the first opening marker at or after the previous
\* token's end to the next closing marker, each key the trimmed span; the
\* test's input gives the test's three tokens.
C8_ScanResult ==
    ScanFinished =>
        LET spans == SpansFrom(text, 0)
        IN  /\ Len(result) = Len(spans)
            /\ \A i \in 1..Len(spans) :
                  /\ result[i][2] = Slice(text, spans[i][1], spans[i][2])
                  /\ result[i][1] = KeyOfSpan(result[i][2])
                  /\ i > 1 => spans[i][1] >= spans[i - 1][2]
            /\ text = Fixture => result = FixtureTokens

C8_Witness ==
    /\ spc = "done"
    /\ text = Fixture
    /\ result = FixtureTokens

\* Texts of the form {{{key}} with a key free of braces and white space.
IsTripleBrace(t) ==
    /\ Len(t) >= 6
    /\ SubSeq(t, 1, 3) = <<"{", "{", "{">>
    /\ SubSeq(t, Len(t) - 1, Len(t)) = CloseMarker
    /\ \A i \in 4..(Len(t) - 2) : t[i] \notin {"{", "}", " "}

TripleBraceKey(t) == SubSeq(t, 4, Len(t) - 2)

\* C9 as stated: for {{{key}} the token's literal span is {{key}}, starting
\* at the second brace.
C9_SpanFromSecondBrace ==
    (ScanFinished /\ IsTripleBrace(text)) =>
        result = << <<TripleBraceKey(text), OpenMarker \o TripleBraceKey(text) \o CloseMarker>> >>

\* C9 amended: for {{{key}} the scanner yields one token with key `key`
\* whose literal span is the whole {{{key}}, starting at the first brace.
C9_SpanFromFirstBrace ==
    (ScanFinished /\ IsTripleBrace(text)) =>
        result = << <<TripleBraceKey(text), text>> >>

C9_Witness ==
    /\ spc = "done"
    /\ text = <<"{", "{", "{", "x", "}", "}">>
    /\ result = << <<(<<"x">>), text>> >>

\* ------------------------------------------------------ claims C1 .. C2
UnderTo(c) == IsPrefix(Components(cp_to), c) /\ c # Components(cp_to)

\* C1: a destination file that exists before cp_r runs has the same content
\* afterwards: no step of the mirror overwrites an existing destination
\* entry.
C1_NoOverwrite ==
    [][\A c \in DOMAIN fs : (UnderTo(c) /\ IsFile(fs, c)) => (c \in DOMAIN fs' /\ fs'[c] = fs[c])]_vars

\* C2: after a successful first run, a second cp_r on the same pair returns
\* success and leaves the destination as it was.
C2_Idempotent ==
    (Len(cp_results) >= 2 /\ cp_results[1] = "ok") =>
        (cp_results[2] = "ok" /\ fs = fs_at_call)

\* ----------------------------------------------------- claims C3, C4, C10
\* What lies at and below the target path.
TargetPart(f) ==
    [q \in {r \in DOMAIN f : IsPrefix(Components(package_dir), r)} |-> f[q]]

C3_Step ==
    /\ (TargetPart(fs') # TargetPart(fs)) => validated \in {"absent", "empty"}
    /\ (validated' = "nonempty") => (outcome' = "rejected" /\ fs' = fs)

\* C3: no step of a run changes anything at or below the target path unless
\* PackageDir::from_str found the path absent or an empty directory; when it
\* found a directory with an entry, the run is rejected and no step changes
\* the file system at all.
C3_TargetDirectoryInvariant == [][C3_Step]_vars

\* A run over an empty target that ended with Ok and left entries there.
C3_Witness ==
    /\ validated = "empty"
    /\ pc = "done" /\ outcome = "Ok"
    /\ Listing(fs, Components(package_dir)) # {}

\* The steps execute has to run for its arguments, in order.
StepsRequired ==
    <<"create_dir_all">>
    \o (IF skip_profile_creation THEN <<>> ELSE <<"aptos_init_profile_default">>)
    \o (IF template_type = OnlyMoveToml
        THEN <<"aptos_move_init">>
        ELSE <<"git_download", "copy_template_to", "replace_values_in_the_template">>)

FailedStepInLog == \E i \in 1..Len(log) : ~log[i].ok

C4_State ==
    /\ \A i \in 1..(Len(log) - 1) : log[i].ok
    /\ Len(log) <= Len(StepsRequired)
    /\ \A i \in 1..Len(log) : log[i].step = StepsRequired[i]
    /\ outcome = "Ok" =>
          /\ Len(log) = Len(StepsRequired)
          /\ \A i \in 1..Len(log) : log[i].ok

C4_Step == FailedStepInLog => (fs' = fs /\ log' = log /\ outcome' # "Ok")

\* C4: the steps run in execute's order; after a step has failed no step
\* runs and nothing is written; the run ends with Ok only when every step
\* its arguments require has run and none has failed.
C4_FailStop == [](C4_State) /\ [][C4_Step]_vars

\* A run that stopped at the template fetch, after the earlier steps had
\* succeeded.
C4_Witness ==
    /\ pc = "done" /\ outcome = "Err"
    /\ Len(log) >= 2
    /\ log[Len(log)].step = "git_download" /\ ~log[Len(log)].ok
    /\ log[1].ok

\* The variant's directory was there and is what cp_r copied.
VariantSelected ==
    /\ template_type = EmptyPackage
    /\ ctp # "none"
    /\ cp_from = PathJoin(git_template_path(EmptyPackage), VariantDir(ctp))

VariantFiles == {p \in DOMAIN fs : IsPrefix(Components(cp_from), p) /\ IsFile(fs, p)}
RelativeTo(p, root) == SubSeq(p, Len(Components(root)) + 1, Len(p))
SubstText(t) == str_replace_position(t, HashMapOfRun).text
SubstPath(rel) == [i \in 1..Len(rel) |-> SubstText(rel[i])]

\* Every file of the variant is in the target, path and content substituted.
Rendered ==
    \A p \in VariantFiles :
        LET q == Components(package_dir) \o SubstPath(RelativeTo(p, cp_from))
        IN  IsFile(fs, q) /\ fs[q].data = SubstText(fs[p].data)

\* No file of the variant holds an opening marker that is never closed.
MarkersTerminated ==
    \A p \in VariantFiles : ~str_replace_position(fs[p].data, HashMapOfRun).hang

CopySucceeded ==
    \E i \in 1..Len(log) : log[i] = [step |-> "copy_template_to", ok |-> TRUE]

\* C10: for every tree shape of the selected variant, files below a
\* directory with a token in its name included, a run whose copy succeeded
\* ends with Ok and with every file of the variant in the target at its
\* substituted path with its substituted content.
C10_EndToEndRendering ==
    (pc = "done" /\ VariantSelected /\ CopySucceeded /\ MarkersTerminated)
        => (outcome = "Ok" /\ Rendered)

\* The same for the runs that ended with Ok only, over a target path that
\* holds no token.
C10_RenderedOnOk ==
    (pc = "done" /\ outcome = "Ok" /\ VariantSelected /\ SubstText(package_dir) = package_dir)
        => Rendered

\* A run ended with Ok over a variant that has a file below a directory with
\* a token in its name.
C10_OkBelowTokenDirectory ==
    /\ pc = "done" /\ outcome = "Ok" /\ VariantSelected
    /\ \E p \in VariantFiles :
          LET rel == RelativeTo(p, cp_from)
          IN  Len(rel) >= 2 /\ SubstText(rel[1]) # rel[1]

\* ----------------------------------------------------------- claim C11
\* What lies at and below the cache path of the template.
CachePart(f) ==
    [q \in {r \in DOMAIN f : IsPrefix(Components(git_template_path(template_type)), r)} |-> f[q]]

CacheThere == Exists(fs, Components(git_template_path(template_type)))

C11_Step ==
    /\ (fs' # fs) => ~CacheThere
    /\ (log' # log /\ CacheThere) =>
          (fs' = fs /\ log'[Len(log')].ok)

C11_State ==
    \A i \in 1..Len(log) :
        log[i].ok => /\ CacheThere
                     /\ \A j \in i..Len(log) : log[j].ok

\* C11: a call of git_download changes the file system only when the cache
\* path of the template does not exist; when it exists the call succeeds and
\* leaves everything as it is, so after the first successful call the cache
\* path exists and every later call succeeds without a change.
C11_FetchOnce == [](C11_State) /\ [][C11_Step]_vars

\* Three calls: the clone failed, the clone succeeded and left entries, the
\* third call returned the cached path.
C11_Witness ==
    /\ pc = "git_download"
    /\ Len(log) = 3
    /\ ~log[1].ok /\ log[2].ok /\ log[3].ok
    /\ \E q \in DOMAIN CachePart(fs) : IsFile(fs, q)

\* ----------------------------------------------------------- claim C12
\* C12: in a run with assume_yes set no line is read from the user.
C12_NeverPrompts == assume_yes => ~prompted

\* ----------------------------------------------------------- claim C13
InitializerInvoked == \E i \in 1..Len(log) : log[i].step = "aptos_init_profile_default"
InitializerFailed ==
    \E i \in 1..Len(log) : log[i] = [step |-> "aptos_init_profile_default", ok |-> FALSE]

\* The address the run has to substitute: the sentinel, or the account the
\* initializer recorded.
ExpectedAddress == IF skip_profile_creation THEN <<"_">> ELSE <<"0", "x", "a">>

\* Every file copied from the template holds, where the substitution of its
\* whole path puts it, its source's content with the expected address in
\* place of the default_address token.
AddressRendered ==
    \A p \in VariantFiles :
        LET q == SubstPath(Components(package_dir) \o RelativeTo(p, cp_from))
        IN  /\ IsFile(fs, q)
            /\ fs[q].data = str_replace_position(fs[p].data,
                   TemplateValues(package_name, package_lowercase_name, ExpectedAddress)).text

\* C13: with profile creation skipped the initializer is never invoked and
\* the value substituted for default_address is "_"; otherwise the value is
\* the address the initializer recorded, and a run whose initializer failed
\* or recorded no address has ended with Err.
C13_SentinelAddress ==
    /\ skip_profile_creation => ~InitializerInvoked
    /\ InitializerFailed => (pc = "done" /\ outcome = "Err")
    /\ pc \in {"branch", "ask_type_language", "copy_template_to", "replace"} =>
          /\ HashMapOfRun[KeyDefaultAddress] = ExpectedAddress
          /\ ~skip_profile_creation => InitializerInvoked
    /\ (pc = "done" /\ outcome = "Ok" /\ template_type = EmptyPackage) => AddressRendered

\* A run with profile creation skipped that ended with Ok and wrote "_" for
\* the token into a file.
C13_Witness ==
    /\ skip_profile_creation
    /\ pc = "done" /\ outcome = "Ok" /\ template_type = EmptyPackage
    /\ \E p \in VariantFiles :
          /\ StrContains(fs[p].data, KeyDefaultAddress)
          /\ fs[SubstPath(Components(package_dir) \o RelativeTo(p, cp_from))].data
                = package_name \o <<"_">>

\* ----------------------------------------------------------- claim C14
BeforeCreateDir == pc \in {"parse", "package_name", "template_type", "ask_create_package"}

C14_State ==
    outcome = "exit" =>
        /\ pc = "done"
        /\ ~assume_yes /\ prompted
        /\ log = <<>>
        /\ cp_status = "idle"
        /\ TargetState(fs, package_dir) = validated
        /\ fs \in {r.fs : r \in ExRuns}

\* C14: a run the user declined at the confirmation has ended by exit, which
\* is neither Ok nor Err nor a panic; no step of execute has run, and no
\* step up to the confirmation has changed the file system, so the target is
\* as PackageDir::from_str found it.
C14_DeclinedConfirmation == [](C14_State) /\ [][BeforeCreateDir => fs' = fs]_vars

\* A declined run over a target that was absent and still is.
C14_Witness ==
    /\ outcome = "exit"
    /\ validated = "absent"
    /\ ~Exists(fs, Components(package_dir))

\* ----------------------------------------------------------- claim C15
\* What lies at and below the temporary directory, where templates are
\* fetched to.
TmpPart(f) == [q \in {r \in DOMAIN f : IsPrefix(Components(TempDir), r)} |-> f[q]]

TemplateSteps == {"git_download", "copy_template_to", "replace_values_in_the_template"}

C15_State ==
    template_type = OnlyMoveToml =>
        /\ \A i \in 1..Len(log) : log[i].step \notin TemplateSteps
        /\ pc \notin {"ask_type_language", "copy_template_to", "replace"}
        /\ ctp = "none" /\ cp_status = "idle" /\ walk = <<>>
        /\ \A i \in 1..Len(log) :
              log[i].step = "aptos_move_init" =>
                  /\ i = Len(log)
                  /\ pc = "done"
                  /\ outcome = IF log[i].ok THEN "Ok" ELSE "Err"

\* C15: in a run with the minimal template git_download is never invoked,
\* nothing is fetched, neither the copy nor the substitution runs, and the
\* run ends with the result of the manifest initializer as soon as it
\* returns.
C15_NoFetchForMinimal ==
    [](C15_State) /\ [][template_type' = OnlyMoveToml => TmpPart(fs') = TmpPart(fs)]_vars

\* A run with the minimal template that ended with Ok and has the manifest.
C15_Witness ==
    /\ template_type = OnlyMoveToml
    /\ pc = "done" /\ outcome = "Ok"
    /\ IsFile(fs, Components(package_dir) \o <<MoveToml>>)
    /\ ~Exists(fs, Components(git_template_path(OnlyMoveToml)))

\* ----------------------------------------------------------- claim C16
\* C16: a call of cp_r that found an entry in the destination directory
\* changes nothing and does not return Ok.
C16_MirrorGuard ==
    (cp_status # "idle" /\ Listing(fs_at_call, Components(cp_to)) # {})
        => (fs = fs_at_call /\ cp_status # "ok")

\* ----------------------------------------------------------- claim C17
\* C17: for every entry the walk of cp_r yields, copy_to is `to` joined
\* with the entry's path relative to `from`.
C17_DestinationRebasing ==
    cp_status = "running" =>
        \A o \in WalkNext(fs, walk) :
            Components(CopyTo(cp_from, cp_to, o.path))
                = Components(cp_to) \o RelativeTo(Components(o.path), cp_from)

\* ----------------------------------------------------------- claim C18
\* Step `step` is logged as succeeded before position i of the log.
SucceededBefore(step, i) ==
    \E j \in 1..(i - 1) : log[j] = [step |-> step, ok |-> TRUE]

\* The target exists and, unless skipped, the initializer has succeeded,
\* both logged before position i.
TargetAndProfileBefore(i) ==
    /\ SucceededBefore("create_dir_all", i)
    /\ ~skip_profile_creation => SucceededBefore("aptos_init_profile_default", i)
    /\ \A j \in 1..(i - 1) :
          log[j].step = "aptos_init_profile_default" => SucceededBefore("create_dir_all", j)

C18_State ==
    /\ \A i \in 1..Len(log) :
          /\ log[i].step = "aptos_init_profile_default" => SucceededBefore("create_dir_all", i)
          /\ log[i].step \in TemplateSteps \cup {"aptos_move_init"} => TargetAndProfileBefore(i)
    /\ pc = "profile" => SucceededBefore("create_dir_all", Len(log) + 1)
    /\ (profile_address_hex # <<>> \/ cp_status # "idle" \/ ctp # "none"
        \/ pc \in {"branch", "ask_type_language", "copy_template_to", "replace"})
          => TargetAndProfileBefore(Len(log) + 1)

\* Nothing is fetched, copied or substituted before the target and the
\* profile are there.
C18_Step ==
    (fs' # fs /\ ~pc \in {"create_dir", "profile"}) => TargetAndProfileBefore(Len(log) + 1)

\* C18: the target directory is created before the profile initializer is
\* started, and both have succeeded (the initializer unless skipped) before
\* the address for the substitution is bound and before the manifest
\* initializer, the fetch, the copy or the substitution runs.
C18_StepOrdering == [](C18_State) /\ [][C18_Step]_vars

\* A run with the initializer that reached the end of the substitution.
C18_Witness ==
    /\ ~skip_profile_creation
    /\ Len(log) = 5
    /\ log[2] = [step |-> "aptos_init_profile_default", ok |-> TRUE]
    /\ log[5].step = "replace_values_in_the_template"

\* ----------------------------------------------------------- claim C19
\* The step in which an entry of the walk fails.
C19_FailingStep == cp_status = "running" /\ cp_status' = "err"

C19_Step ==
    /\ C19_FailingStep =>
          /\ fs' = fs
          /\ walk' = <<>>
          /\ cp_results' = Append(cp_results, "err")
    /\ cp_status = "err" => fs' = fs
    /\ cp_status = "running" => \A c \in DOMAIN fs : c \in DOMAIN fs'

\* C19: when an entry's fs::copy or fs::create_dir fails, cp_r returns the
\* error in that step, the walk is dropped and no later entry is processed,
\* and everything the call wrote before the failure stays where it is.
C19_AbortWithoutRollback == [][C19_Step]_vars

\* A call that failed after it had written an entry.
C19_Witness ==
    /\ cp_status = "err"
    /\ Len(cp_results) = 1
    /\ fs # fs_at_call
    /\ \E c \in DOMAIN fs : UnderTo(c) /\ c \notin DOMAIN fs_at_call

\* ------------------------------------------------------------------ C20
\* The entries below the target that copy_template_to did not write: they
\* were there when cp_r was called.
NotCopied ==
    {c \in DOMAIN fs_at_call :
        IsPrefix(Components(package_dir), c) /\ c # Components(package_dir)}

C20_Step ==
    pc = "replace" =>
        \A c \in NotCopied \cap DOMAIN fs : c \in DOMAIN fs' /\ fs'[c] = fs[c]

\* C20: no step of replace_values_in_the_template rewrites, renames or
\* removes an entry of the target directory that was there before
\* copy_template_to ran, such as the files of the profile initializer: each
\* of them keeps its path and its content.
C20_SubstitutionFrame == [][C20_Step]_vars

\* ------------------------------------------------------------------ C21
InTarget(c) == IsPrefix(Components(package_dir), c)

\* to_path of every entry the walk may yield next lies at or below the
\* target.
C21_State ==
    pc = "replace" =>
        \A o \in WalkNext(fs, walk) :
            LET to_path == str_replace_position(o.path, HashMapOfRun)
            IN  ~to_path.hang => InTarget(Components(to_path.text))

\* No step of the pass makes an entry appear outside the target.
C21_Step ==
    pc = "replace" => \A c \in DOMAIN fs' : c \notin DOMAIN fs => InTarget(c)

\* C21: for every entry replace_values_in_the_template visits, the path
\* after substitution keeps the target directory's path as its prefix, so
\* the destination of every rename lies below the target and no step of the
\* pass creates an entry outside it, also when the target path itself holds
\* a mapped token.
C21_RenamesInsideTarget == [](C21_State) /\ [][C21_Step]_vars
====
